---- MODULE Spec2Model ----
(***************************************************************************)
(* Model of the two components of the repository:                          *)
(*   - src/server.js : the POST /pay relay (SpecPay)                        *)
(*   - src/script.js : manageAnimationState and the class-list state of    *)
(*                     DOM elements (SpecManage), createScopedCounter      *)
(*                     (SpecCounter), calculateAnimationDuration and       *)
(*                     createAnimationConfig (SpecHelper), handler         *)
(*                     registration at DOMContentLoaded (SpecLoad), the    *)
(*                     theme toggle and counter buttons with their timers  *)
(*                     (SpecUi, SpecUiFair), the dropdown menu and the     *)
(*                     tabs (SpecWidgets), the popup modal (SpecPopup)     *)
(***************************************************************************)
EXTENDS Integers, Sequences, FiniteSets

VARIABLES
    \* ---- server.js ----
    now,         \* wall clock in milliseconds (Date.now())
    env,         \* process.env.FLW_SECRET_KEY
    pc,          \* per request: position of the /pay handler
    inbound,     \* per request: req.body handed to the handler
    calls,       \* per request: the axios.post calls made, in order
    settled,     \* per request: state of the promise returned by axios.post
    responses,   \* per request: the responses sent on res, in order
    \* ---- script.js ----
    classList,   \* per element: its set of class tokens
    lastCall,    \* the most recent manageAnimationState call and its return value
    warnings,    \* number of console.warn calls made so far
    toggleRun,   \* the current run of consecutive 'toggle' calls on one element
    counters,    \* per counter closure: its private count and its initialValue
    ctorArg,     \* per counter closure: the argument createScopedCounter was given
    ctrLast,     \* the most recent counter method call and its return value
    wallClock,   \* the browser's wall clock in milliseconds (new Date())
    durCall,     \* the most recent calculateAnimationDuration call and its result
    cfgCall,     \* the most recent createAnimationConfig call and its result
    present,     \* the expected elements that exist in the hosted page
    faqCount,    \* the number of .faq-question elements in the page
    loadState,   \* "parsed" until DOMContentLoaded is dispatched, then "wired" or "threw"
    thrownAt,    \* the element whose absence made the outer handler throw
    listeners,   \* per handler: how many times it is attached to its target
    domListeners, \* the DOMContentLoaded listeners registered on document, in order
    textContent, \* per element: its text
    timers,      \* the ids of the pending setTimeout callbacks, in scheduling order
    timerLog,    \* every setTimeout call made so far: what it reverses and its delay
    fired,       \* per timer id: how many times its callback has run
    lastEvent    \* the most recent click dispatched to the page's widgets

serverVars == <<now, env, pc, inbound, calls, settled, responses>>
animVars == <<classList, lastCall, warnings, toggleRun>>
counterVars == <<counters, ctorArg, ctrLast>>
helperVars == <<wallClock, durCall, cfgCall>>
loadVars == <<present, faqCount, loadState, thrownAt, listeners, domListeners>>
uiVars == <<textContent, timers, timerLog, fired>>
widgetVars == <<lastEvent>>
vars == <<now, env, pc, inbound, calls, settled, responses,
          classList, lastCall, warnings, toggleRun,
          counters, ctorArg, ctrLast,
          wallClock, durCall, cfgCall,
          present, faqCount, loadState, thrownAt, listeners, domListeners,
          textContent, timers, timerLog, fired,
          lastEvent>>

\* everything but the server's state, everything but the class-list state, ...
nonServerVars == <<animVars, counterVars, helperVars, loadVars, uiVars, widgetVars>>
nonAnimVars == <<serverVars, counterVars, helperVars, loadVars, uiVars, widgetVars>>
nonCounterVars == <<serverVars, animVars, helperVars, loadVars, uiVars, widgetVars>>
nonHelperVars == <<serverVars, animVars, counterVars, loadVars, uiVars, widgetVars>>
nonLoadVars == <<serverVars, animVars, counterVars, helperVars, uiVars, widgetVars>>

(***************************************************************************)
(* Bounds                                                                  *)
(***************************************************************************)
MaxReq == 2
ClockStart == 9
MaxTicks == 1
MaxWarnings == 2
MaxToggles == 4
MaxCount == 8
WallClockStart == 59999
MaxWallTicks == 2
MaxFaq == 2
MaxMissing == 2
MaxTimers == 3

(***************************************************************************)
(* JavaScript values                                                       *)
(***************************************************************************)
Undefined == [t |-> "undefined"]
Num(n) == [t |-> "number", n |-> n]
Str(s) == [t |-> "string", s |-> s]

\* obj.f : a missing property reads as undefined
GetProp(obj, f) == IF f \in DOMAIN obj THEN obj[f] ELSE Undefined

DigitChars == <<"0", "1", "2", "3", "4", "5", "6", "7", "8", "9">>

\* Number.prototype.toString() of a non-negative integer: its decimal digits
RECURSIVE ToString(_)
ToString(n) ==
    IF n < 10 THEN <<DigitChars[n + 1]>>
    ELSE Append(ToString(n \div 10), DigitChars[(n % 10) + 1])

\* `${v}` : template-literal conversion of a string or of undefined
TemplateString(v) == IF v = Undefined THEN "undefined" ELSE v.s

(***************************************************************************)
(* server.js : POST /pay                                                   *)
(***************************************************************************)
Requests == 1..MaxReq

NotReceived == [t |-> "not-received"]

\* req.body as express.json() leaves it: a parsed JSON object, or undefined
\* when no JSON body was parsed
ReqBodies ==
    { [amount |-> Num(100), email |-> Str("a@x.io"), name |-> Str("Ann")],
      [amount |-> Num(250), email |-> Str("b@y.io"), name |-> Str("Bob")],
      [email |-> Str("a@x.io"), note |-> Str("x")],
      Undefined }

\* process.env.FLW_SECRET_KEY: a string, or undefined when the variable is unset
EnvValues == { Undefined, Str("FLWSECK-1") }

\* response.data of a resolved upstream call
UpstreamBodies ==
    { [status |-> "success", message |-> "Hosted Link", link |-> "https://pay/1"],
      [status |-> "success"] }

\* errors axios.post rejects with
AxiosErrors ==
    { [name |-> "AxiosError", code |-> "ERR_NETWORK", message |-> "Network Error"],
      [name |-> "AxiosError", code |-> "ERR_BAD_REQUEST",
       message |-> "Request failed with status code 400"],
      [name |-> "AxiosError", code |-> "ERR_BAD_RESPONSE",
       message |-> "Request failed with status code 500"],
      [name |-> "AxiosError", code |-> "ETIMEDOUT", message |-> "timeout exceeded"] }

\* the error thrown by req.body.amount when req.body is undefined
BodyTypeError ==
    [name |-> "TypeError", code |-> "none",
     message |-> "Cannot read properties of undefined (reading 'amount')"]

PaymentsUrl == "https://api.flutterwave.com/v3/payments"

\* PayPayload with tx_ref taken from the clock in seconds
PayPayloadSeconds(body, t) ==
    [ tx_ref |-> ToString(t \div 1000),
      amount |-> GetProp(body, "amount"),
      currency |-> "KES",
      redirect_url |-> "https://your-site.com/callback",
      customer |-> [ email |-> GetProp(body, "email"),
                     name |-> GetProp(body, "name") ],
      payment_options |-> "card,mpesa,ussd" ]

\* PayPayload with the customer's email and name swapped
PayPayloadSwapped(body, t) ==
    [ tx_ref |-> ToString(t),
      amount |-> GetProp(body, "amount"),
      currency |-> "KES",
      redirect_url |-> "https://your-site.com/callback",
      customer |-> [ email |-> GetProp(body, "name"),
                     name |-> GetProp(body, "email") ],
      payment_options |-> "card,mpesa,ussd" ]

\* the second argument of axios.post
PayPayload(body, t) ==
    [ tx_ref |-> ToString(t),
      amount |-> GetProp(body, "amount"),
      currency |-> "KES",
      redirect_url |-> "https://your-site.com/callback",
      customer |-> [ email |-> GetProp(body, "email"),
                     name |-> GetProp(body, "name") ],
      payment_options |-> "card,mpesa,ussd" ]

\* the third argument of axios.post
PayConfig(key) ==
    [ headers |-> [ Authorization |-> <<"Bearer ", TemplateString(key)>> ] ]

\* SuccessResponse relaying the whole axios response instead of its data
SuccessResponseWrapped(data) == [status |-> 200, body |-> [status |-> 200, data |-> data]]

\* res.json(response.data): status stays at its default 200
SuccessResponse(data) == [status |-> 200, body |-> data]

\* ErrorResponse reporting the error's name instead of its message
ErrorResponseName(error) == [status |-> 500, body |-> [error |-> error.name]]

\* res.status(500).json({ error: error.message })
ErrorResponse(error) == [status |-> 500, body |-> [error |-> error.message]]

\* the promise returned by axios.post: not created, pending, resolved, rejected
NoCall == [k |-> "none", data |-> Undefined, error |-> Undefined]
Pending == [k |-> "pending", data |-> Undefined, error |-> Undefined]
Resolved(data) == [k |-> "resolved", data |-> data, error |-> Undefined]
Rejected(error) == [k |-> "rejected", data |-> Undefined, error |-> error]

\* Settled without the await: the handler goes on at once
SettledNoAwait(p) == TRUE

\* await: the handler resumes only once the promise is settled
Settled(p) == p.k \in {"resolved", "rejected"}

\* the try block's res.json after the await, or the catch block
ResumeResponse(p) ==
    IF p.k = "rejected" THEN ErrorResponse(p.error) ELSE SuccessResponse(p.data)

\* AwaitedPromise with response shared by all handler invocations: the
\* handler reads the result some other request's call left there
AwaitedPromiseShared(ps, r) ==
    IF \E q \in DOMAIN ps : q # r /\ Settled(ps[q])
    THEN ps[CHOOSE q \in DOMAIN ps : q # r /\ Settled(ps[q])]
    ELSE ps[r]

\* const response / catch (error): the outcome of the invocation's own call
AwaitedPromise(ps, r) == ps[r]

InitServer ==
    /\ now = ClockStart
    /\ pc = [r \in Requests |-> "idle"]
    /\ inbound = [r \in Requests |-> NotReceived]
    /\ calls = [r \in Requests |-> <<>>]
    /\ settled = [r \in Requests |-> NoCall]
    /\ responses = [r \in Requests |-> <<>>]

\* the clock advances
Tick ==
    /\ now < ClockStart + MaxTicks
    /\ now' = now + 1
    /\ UNCHANGED <<env, pc, inbound, calls, settled, responses>>
    /\ UNCHANGED nonServerVars

\* the handler runs up to its await: the arguments of axios.post are evaluated
\* (which throws when req.body is undefined) and the call is made
PayHandler(r, body) ==
    /\ pc[r] = "idle"
    /\ inbound' = [inbound EXCEPT ![r] = body]
    /\ IF body = Undefined
       THEN /\ responses' = [responses EXCEPT ![r] = Append(@, ErrorResponse(BodyTypeError))]
            /\ pc' = [pc EXCEPT ![r] = "done"]
            /\ UNCHANGED <<calls, settled>>
       ELSE /\ calls' = [calls EXCEPT ![r] =
                    Append(@, [url |-> PaymentsUrl,
                               data |-> PayPayload(body, now),
                               config |-> PayConfig(env),
                               at |-> now])]
            /\ settled' = [settled EXCEPT ![r] = Pending]
            /\ pc' = [pc EXCEPT ![r] = "awaiting"]
            /\ UNCHANGED responses
    /\ UNCHANGED <<now, env>>
    /\ UNCHANGED nonServerVars

\* the payment API answers 2xx: the promise resolves
UpstreamResolve(r, data) ==
    /\ settled[r] = Pending
    /\ settled' = [settled EXCEPT ![r] = Resolved(data)]
    /\ UNCHANGED <<now, env, pc, inbound, calls, responses>>
    /\ UNCHANGED nonServerVars

\* network error, non-2xx answer or timeout: the promise rejects
UpstreamReject(r, error) ==
    /\ settled[r] = Pending
    /\ settled' = [settled EXCEPT ![r] = Rejected(error)]
    /\ UNCHANGED <<now, env, pc, inbound, calls, responses>>
    /\ UNCHANGED nonServerVars

\* the handler resumes after the await
PayResume(r) ==
    /\ pc[r] = "awaiting"
    /\ Settled(settled[r])
    /\ responses' = [responses EXCEPT ![r] =
            Append(@, ResumeResponse(AwaitedPromise(settled, r)))]
    /\ pc' = [pc EXCEPT ![r] = "done"]
    /\ UNCHANGED <<now, env, inbound, calls, settled>>
    /\ UNCHANGED nonServerVars

(***************************************************************************)
(* script.js : class lists and manageAnimationState                        *)
(***************************************************************************)
Elements == {"counter", "popup-modal"}
Tokens == {"animating", "show"}

\* actions that match none of the switch cases (strict comparison)
OtherActions == {"bogus", "Start", ""}

\* DOMTokenList
ClassContains(cl, token) == token \in cl
\* ClassAdd that flips the token instead of adding it
ClassAddFlips(cl, token) == IF token \in cl THEN cl \ {token} ELSE cl \cup {token}
ClassAdd(cl, token) == cl \cup {token}
\* ClassRemove that flips the token instead of removing it
ClassRemoveFlips(cl, token) == IF token \in cl THEN cl \ {token} ELSE cl \cup {token}
ClassRemove(cl, token) == cl \ {token}
\* ClassToggle that only ever adds the token
ClassToggleAdds(cl, token) == cl \cup {token}
ClassToggle(cl, token) == IF token \in cl THEN cl \ {token} ELSE cl \cup {token}

\* manageAnimationState(element, action) on the document whose class lists
\* are cls: the class lists after the call, whether console.warn was called,
\* and the returned object
\* SwitchClasses whose 'stop' case clears the whole class attribute
SwitchClassesStopClears(cl, action) ==
    CASE action = "start" -> ClassAdd(cl, "animating")
      [] action = "stop" -> {}
      [] action = "toggle" -> ClassToggle(cl, "animating")
      [] OTHER -> cl

\* SwitchClasses whose default branch falls into the 'start' case
SwitchClassesDefaultStarts(cl, action) ==
    CASE action = "stop" -> ClassRemove(cl, "animating")
      [] action = "toggle" -> ClassToggle(cl, "animating")
      [] OTHER -> ClassAdd(cl, "animating")

\* the switch statement: what it does to the element's class list
SwitchClasses(cl, action) ==
    CASE action = "start" -> ClassAdd(cl, "animating")
      [] action = "stop" -> ClassRemove(cl, "animating")
      [] action = "toggle" -> ClassToggle(cl, "animating")
      [] OTHER -> cl

\* SwitchResult reporting true for every 'toggle'
SwitchResultToggleTrue(action, currentState) ==
    CASE action = "start" -> TRUE
      [] action = "stop" -> TRUE
      [] action = "toggle" -> TRUE
      [] OTHER -> FALSE

\* the switch statement: the value it leaves in result (initialised false)
SwitchResult(action, currentState) ==
    CASE action = "start" -> TRUE
      [] action = "stop" -> TRUE
      [] action = "toggle" -> ~currentState
      [] OTHER -> FALSE

\* the switch statement: whether the default branch (console.warn) is taken
SwitchWarns(action) == action \notin {"start", "stop", "toggle"}

\* ReturnObject reporting the class state read at entry as newState
ReturnObjectStale(result, currentState, clAfter, element) ==
    [ success |-> result,
      newState |-> currentState,
      element |-> element ]

\* the returned object; newState re-reads the class list after the switch
ReturnObject(result, currentState, clAfter, element) ==
    [ success |-> result,
      newState |-> ClassContains(clAfter, "animating"),
      element |-> element ]

manageAnimationState(cls, element, action) ==
    LET currentState == ClassContains(cls[element], "animating")
        result == SwitchResult(action, currentState)
        newCls == [cls EXCEPT ![element] = SwitchClasses(cls[element], action)]
    IN  [ classList |-> newCls,
          warned |-> SwitchWarns(action),
          ret |-> ReturnObject(result, currentState, newCls[element], element) ]

NoElement == "none"
NoRun == [element |-> NoElement, origin |-> FALSE, n |-> 0]
NoCallYet ==
    [ element |-> NoElement, action |-> "none", before |-> {}, warned |-> FALSE,
      returned |-> FALSE,
      ret |-> [success |-> FALSE, newState |-> FALSE, element |-> NoElement] ]

InitAnim ==
    /\ classList \in [Elements -> SUBSET Tokens]
    /\ lastCall = NoCallYet
    /\ warnings = 0
    /\ toggleRun = NoRun

\* a call site runs manageAnimationState(element, action) to completion
Manage(element, action) ==
    LET m == manageAnimationState(classList, element, action)
    IN  /\ classList' = m.classList
        /\ warnings' = IF m.warned THEN warnings + 1 ELSE warnings
        /\ lastCall' = [ element |-> element, action |-> action,
                         before |-> classList[element], warned |-> m.warned,
                         returned |-> TRUE, ret |-> m.ret ]
        /\ toggleRun' =
             IF action = "toggle"
             THEN IF toggleRun.element = element
                  THEN [toggleRun EXCEPT !.n = @ + 1]
                  ELSE [ element |-> element,
                         origin |-> ClassContains(classList[element], "animating"),
                         n |-> 1 ]
             ELSE IF toggleRun.element = element
                  THEN NoRun
                  ELSE toggleRun
        /\ UNCHANGED nonAnimVars

ManageStart(element) == Manage(element, "start")

ManageStop(element) == Manage(element, "stop")

ManageToggle(element) ==
    /\ toggleRun.element = element => toggleRun.n < MaxToggles
    /\ Manage(element, "toggle")

ManageOther(element, action) ==
    /\ warnings < MaxWarnings
    /\ Manage(element, action)

(***************************************************************************)
(* script.js : createScopedCounter                                         *)
(***************************************************************************)
Counters == {"c1", "c2"}

\* arguments createScopedCounter is called with (undefined: omitted)
InitialValues == {Undefined, Num(5), Num(-2)}

\* arguments increment and decrement are called with (undefined: omitted)
Steps == {Undefined, Num(3), Num(-1)}

\* a parameter with a default value: the default replaces undefined only
DefaultParam(arg, default) == IF arg = Undefined THEN default ELSE arg.n

\* createScopedCounter(initialValue = 0): the closure's variables
createScopedCounter(initialValue) ==
    [ count |-> DefaultParam(initialValue, 0),
      initialValue |-> DefaultParam(initialValue, 0) ]

\* StoreCount with count shared by all closures instead of one per closure
StoreCountShared(cs, c, v) == [d \in DOMAIN cs |-> [cs[d] EXCEPT !.count = v]]

\* assignment to the closure's own count
StoreCount(cs, c, v) == [cs EXCEPT ![c].count = v]

\* increment that ignores its step
incrementByOne(cs, c, step) ==
    LET after == StoreCount(cs, c, cs[c].count + 1)
    IN  [counters |-> after, ret |-> after[c].count]

\* increment: function(step = 1) { count += step; return count; }
increment(cs, c, step) ==
    LET after == StoreCount(cs, c, cs[c].count + DefaultParam(step, 1))
    IN  [counters |-> after, ret |-> after[c].count]

\* decrement: function(step = 1) { count -= step; return count; }
decrement(cs, c, step) ==
    LET after == StoreCount(cs, c, cs[c].count - DefaultParam(step, 1))
    IN  [counters |-> after, ret |-> after[c].count]

\* reset that goes back to zero
resetToZero(cs, c) ==
    LET after == StoreCount(cs, c, 0)
    IN  [counters |-> after, ret |-> after[c].count]

\* reset: function() { count = initialValue; return count; }
reset(cs, c) ==
    LET after == StoreCount(cs, c, cs[c].initialValue)
    IN  [counters |-> after, ret |-> after[c].count]

\* getValue: function() { return count; }
getValue(cs, c) == [counters |-> cs, ret |-> cs[c].count]

NoCounter == "none"
NoOpYet == [counter |-> NoCounter, op |-> "none", step |-> Undefined, before |-> 0, ret |-> 0]

InitCounters ==
    /\ ctorArg \in [Counters -> InitialValues]
    /\ counters = [c \in Counters |-> createScopedCounter(ctorArg[c])]
    /\ ctrLast = NoOpYet

InCountRange(v) == -MaxCount <= v /\ v <= MaxCount

\* a caller runs one method of counter c to completion
CounterCall(c, op, step, m) ==
    /\ \A d \in Counters : InCountRange(m.counters[d].count)
    /\ counters' = m.counters
    /\ ctrLast' = [counter |-> c, op |-> op, step |-> step,
                   before |-> counters[c].count, ret |-> m.ret]
    /\ UNCHANGED ctorArg
    /\ UNCHANGED nonCounterVars

Increment(c, step) == CounterCall(c, "increment", step, increment(counters, c, step))

Decrement(c, step) == CounterCall(c, "decrement", step, decrement(counters, c, step))

Reset(c) == CounterCall(c, "reset", Undefined, reset(counters, c))

GetValue(c) == CounterCall(c, "getValue", Undefined, getValue(counters, c))

(***************************************************************************)
(* script.js : calculateAnimationDuration and createAnimationConfig        *)
(***************************************************************************)
\* rational numbers as fractions in lowest terms with a positive denominator
Abs(x) == IF x < 0 THEN -x ELSE x

RECURSIVE Gcd(_, _)
Gcd(a, b) == IF b = 0 THEN a ELSE Gcd(b, a % b)

Rat(n, d) ==
    LET g == Gcd(Abs(n), Abs(d))
        sgn == IF d < 0 THEN -1 ELSE 1
    IN  [num |-> sgn * (n \div g), den |-> sgn * (d \div g)]

\* a / b for integers a and b, b # 0
Divide(a, b) == Rat(a, b)

\* k * q for an integer k and a rational q
Times(k, q) == Rat(k * q.num, q.den)

\* Math.max(0, q)
ClampAtZero(q) == IF q.num < 0 THEN Rat(0, 1) ELSE q

\* calculateAnimationDuration that never returns a negative duration
calculateAnimationDurationClamped(baseDuration, speedMultiplier, elementSize) ==
    LET sizeFactor == Divide(elementSize, 100)
        adjustedDuration == Times(baseDuration * speedMultiplier, sizeFactor)
    IN  ClampAtZero(adjustedDuration)

calculateAnimationDuration(baseDuration, speedMultiplier, elementSize) ==
    LET sizeFactor == Divide(elementSize, 100)
        adjustedDuration == Times(baseDuration * speedMultiplier, sizeFactor)
    IN  adjustedDuration

BaseDurations == {-500, 0, 300, 500}
SpeedMultipliers == {-1, 0, 1, 2}
ElementSizes == {-50, 0, 20, 100, 150}

\* str left-padded with "0" to width w
RECURSIVE PadStart(_, _)
PadStart(str, w) == IF Len(str) >= w THEN str ELSE PadStart(<<"0">> \o str, w)

\* Date.prototype.toISOString() for a time t within 1970-01-01 (UTC)
toISOString(t) ==
    LET hours == t \div 3600000
        minutes == (t % 3600000) \div 60000
        seconds == (t % 60000) \div 1000
        millis == t % 1000
    IN  <<"1", "9", "7", "0", "-", "0", "1", "-", "0", "1", "T">>
        \o PadStart(ToString(hours), 2) \o <<":">>
        \o PadStart(ToString(minutes), 2) \o <<":">>
        \o PadStart(ToString(seconds), 2) \o <<".">>
        \o PadStart(ToString(millis), 3) \o <<"Z">>

\* createAnimationConfig that ignores its easing argument
createAnimationConfigAlwaysEase(type, duration, easing, t) ==
    [ animationType |-> type,
      duration |-> duration,
      easing |-> "ease",
      timestamp |-> toISOString(t) ]

\* createAnimationConfig(type, duration, easing = 'ease') called at time t
createAnimationConfig(type, duration, easing, t) ==
    [ animationType |-> type,
      duration |-> duration,
      easing |-> IF easing = Undefined THEN "ease" ELSE easing.s,
      timestamp |-> toISOString(t) ]

AnimationTypes == {"fade", "pulse"}
ConfigDurations == {0, 500}
\* easing arguments (undefined: omitted); script.js itself passes 'ease'
Easings == {Undefined, Str("ease"), Str("ease-in-out")}

NoDurCall ==
    [ called |-> FALSE, baseDuration |-> 0, speedMultiplier |-> 0, elementSize |-> 0,
      ret |-> Rat(0, 1) ]
NoCfgCall ==
    [ called |-> FALSE, type |-> "none", duration |-> 0, easing |-> Undefined, at |-> 0,
      ret |-> [animationType |-> "none", duration |-> 0, easing |-> "none",
               timestamp |-> <<>>] ]

InitHelpers ==
    /\ wallClock = WallClockStart
    /\ durCall = NoDurCall
    /\ cfgCall = NoCfgCall

\* the browser's clock advances
WallTick ==
    /\ wallClock < WallClockStart + MaxWallTicks
    /\ wallClock' = wallClock + 1
    /\ UNCHANGED <<durCall, cfgCall>>
    /\ UNCHANGED nonHelperVars

\* a caller runs calculateAnimationDuration
CalcDuration(baseDuration, speedMultiplier, elementSize) ==
    /\ durCall' = [ called |-> TRUE, baseDuration |-> baseDuration,
                    speedMultiplier |-> speedMultiplier, elementSize |-> elementSize,
                    ret |-> calculateAnimationDuration(baseDuration, speedMultiplier,
                                                       elementSize) ]
    /\ UNCHANGED <<wallClock, cfgCall>>
    /\ UNCHANGED nonHelperVars

\* a caller runs createAnimationConfig
CreateConfig(type, duration, easing) ==
    /\ cfgCall' = [ called |-> TRUE, type |-> type, duration |-> duration,
                    easing |-> easing, at |-> wallClock,
                    ret |-> createAnimationConfig(type, duration, easing, wallClock) ]
    /\ UNCHANGED <<wallClock, durCall>>
    /\ UNCHANGED nonHelperVars

(***************************************************************************)
(* script.js : handler registration at DOMContentLoaded                    *)
(***************************************************************************)
\* elements the script looks up by id or selector (the .faq-question
\* elements are counted by faqCount)
ExpectedElements ==
    { "theme-toggle", "counter", "increment-btn", "decrement-btn", "reset-btn",
      "dropdown-btn", "dropdown-content", "dropdown-link", ".tab-btn", "user-form",
      "animate-box-btn", "flip-card-btn", "start-loading-btn", "stop-loading-btn",
      "popup-modal", "show-popup-btn", "close-popup-btn", ".close", "header", "section" }

\* the handlers the script can attach
HandlerNames ==
    { "theme-toggle:click", "increment-btn:click", "decrement-btn:click",
      "reset-btn:click", ".faq-question:click", "dropdown-btn:click",
      "dropdown-link:click", "document:click", ".tab-btn:click", "user-form:submit",
      "animate-box-btn:click", "flip-card-btn:click", "start-loading-btn:click",
      "stop-loading-btn:click", "show-popup-btn:click", "close-popup-btn:click",
      ".close:click", "window:click", "header:click", "section:mouseenter",
      "section:mouseleave", "header:dblclick" }

None == ""

Step(needs, optional, perFaq, attach, dom) ==
    [needs |-> needs, optional |-> optional, perFaq |-> perFaq, attach |-> attach, dom |-> dom]

\* OuterSteps with the theme-toggle lookup guarded against null
OuterStepsGuarded ==
    << Step(None, "theme-toggle", FALSE, "theme-toggle:click", None),
       Step("increment-btn", None, FALSE, "increment-btn:click", None),
       Step("decrement-btn", None, FALSE, "decrement-btn:click", None),
       Step("reset-btn", None, FALSE, "reset-btn:click", None),
       Step(None, None, TRUE, ".faq-question:click", "boxAnimations"),
       Step("dropdown-content", None, FALSE, None, None),
       Step("dropdown-btn", None, FALSE, "dropdown-btn:click", None),
       Step(None, "dropdown-link", FALSE, "dropdown-link:click", None),
       Step(None, None, FALSE, "document:click", None),
       Step(None, ".tab-btn", FALSE, ".tab-btn:click", None),
       Step("user-form", None, FALSE, "user-form:submit", None),
       Step(None, None, FALSE, None, "headerSections") >>

\* the outer DOMContentLoaded handler, statement by statement: the element a
\* statement dereferences (null when absent: the statement throws), the
\* elements a forEach runs over, the handler it attaches and the
\* DOMContentLoaded listener it registers on document
OuterSteps ==
    << Step("theme-toggle", None, FALSE, "theme-toggle:click", None),
       Step("increment-btn", None, FALSE, "increment-btn:click", None),
       Step("decrement-btn", None, FALSE, "decrement-btn:click", None),
       Step("reset-btn", None, FALSE, "reset-btn:click", None),
       Step(None, None, TRUE, ".faq-question:click", "boxAnimations"),
       Step("dropdown-content", None, FALSE, None, None),
       Step("dropdown-btn", None, FALSE, "dropdown-btn:click", None),
       Step(None, "dropdown-link", FALSE, "dropdown-link:click", None),
       Step(None, None, FALSE, "document:click", None),
       Step(None, ".tab-btn", FALSE, ".tab-btn:click", None),
       Step("user-form", None, FALSE, "user-form:submit", None),
       Step(None, None, FALSE, None, "headerSections") >>

\* the DOMContentLoaded listener registered once per .faq-question
BoxAnimationSteps ==
    << Step("animate-box-btn", None, FALSE, "animate-box-btn:click", None),
       Step("flip-card-btn", None, FALSE, "flip-card-btn:click", None),
       Step("start-loading-btn", None, FALSE, "start-loading-btn:click", None),
       Step("stop-loading-btn", None, FALSE, "stop-loading-btn:click", None),
       Step("popup-modal", None, FALSE, None, None),
       Step("show-popup-btn", None, FALSE, "show-popup-btn:click", None),
       Step("close-popup-btn", None, FALSE, "close-popup-btn:click", None),
       Step(".close", None, FALSE, ".close:click", None),
       Step(None, None, FALSE, "window:click", None) >>

\* the DOMContentLoaded listener registered at the end of the outer handler
HeaderSectionSteps ==
    << Step("header", None, FALSE, "header:click", None),
       Step(None, "section", FALSE, "section:mouseenter", None),
       Step(None, "section", FALSE, "section:mouseleave", None),
       Step(None, None, FALSE, "header:dblclick", None) >>

ListenerSteps(name) ==
    CASE name = "outer" -> OuterSteps
      [] name = "boxAnimations" -> BoxAnimationSteps
      [] OTHER -> HeaderSectionSteps

\* seq followed by n copies of x
RECURSIVE Repeat(_, _, _)
Repeat(seq, x, n) == IF n = 0 THEN seq ELSE Repeat(Append(seq, x), x, n - 1)

\* one statement of a listener, run on the page (els, faqs)
RunStep(st, els, faqs, acc) ==
    IF st.needs # None /\ st.needs \notin els
    THEN [acc EXCEPT !.threw = TRUE, !.at = st.needs]
    ELSE LET times == IF st.perFaq THEN faqs
                      ELSE IF st.optional # None /\ st.optional \notin els THEN 0
                      ELSE 1
         IN  [acc EXCEPT
                !.attached = IF st.attach = None THEN @
                             ELSE [@ EXCEPT ![st.attach] = @ + times],
                !.added = IF st.dom = None THEN @ ELSE Repeat(@, st.dom, times)]

\* the statements of a listener from the i-th on; a throw ends the listener
RECURSIVE RunSteps(_, _, _, _, _)
RunSteps(steps, i, els, faqs, acc) ==
    IF i > Len(steps) \/ acc.threw THEN acc
    ELSE RunSteps(steps, i + 1, els, faqs, RunStep(steps[i], els, faqs, acc))

\* the listeners of the snapshot from the i-th on, each run to completion; a
\* listener that throws does not stop the ones after it
RECURSIVE RunListeners(_, _, _, _, _)
RunListeners(snapshot, i, els, faqs, acc) ==
    IF i > Len(snapshot) THEN acc
    ELSE LET r == RunSteps(ListenerSteps(snapshot[i]), 1, els, faqs,
                           [acc EXCEPT !.threw = FALSE])
         IN  RunListeners(snapshot, i + 1, els, faqs,
                          IF snapshot[i] = "outer"
                          THEN [r EXCEPT !.outerThrew = r.threw, !.outerAt = r.at]
                          ELSE r)

NoListeners == [h \in HandlerNames |-> 0]

\* the pages considered: at most MaxMissing expected elements are absent
Pages ==
    { ExpectedElements \ missing :
        missing \in { m \in SUBSET ExpectedElements : Cardinality(m) <= MaxMissing } }

\* the script has run: its top level registered the outer listener (line 165)
InitLoad ==
    /\ present \in Pages
    /\ faqCount \in 0..MaxFaq
    /\ loadState = "parsed"
    /\ thrownAt = None
    /\ listeners = NoListeners
    /\ domListeners = <<"outer">>

\* the browser dispatches DOMContentLoaded on document, once: the listeners
\* registered when the dispatch starts are run; listeners registered during
\* the dispatch are added to the list but are not run by it
DOMContentLoaded ==
    /\ loadState = "parsed"
    /\ LET r == RunListeners(domListeners, 1, present, faqCount,
                             [ threw |-> FALSE, at |-> None,
                               outerThrew |-> FALSE, outerAt |-> None,
                               attached |-> listeners, added |-> domListeners ])
       IN  /\ loadState' = IF r.outerThrew THEN "threw" ELSE "wired"
           /\ thrownAt' = r.outerAt
           /\ listeners' = r.attached
           /\ domListeners' = r.added
    /\ UNCHANGED <<present, faqCount>>
    /\ UNCHANGED nonLoadVars

(***************************************************************************)
(* script.js : theme toggle and counter buttons, and their timers          *)
(***************************************************************************)
UiElements == {"body", "theme-toggle", "counter"}

\* let globalAnimationSpeed = 1.0
globalAnimationSpeed == 1

\* createAnimationConfig('pulse', 500, 'ease-in-out').duration, through parseFloat
CounterAnimationDuration == 500

\* calculateAnimationDuration(500, globalAnimationSpeed, 20)
GlowBaseDuration == 500
GlowElementSize == 20

\* counterElement.offsetWidth as the layout gives it at a click; 0 when the
\* element is not rendered
OffsetWidths == {0, 20, 40}

\* NumberToText dropping the sign
NumberToTextNoSign(n) == IF n < 0 THEN ToString(-n) ELSE ToString(n)

\* String(n) for an integer n
NumberToText(n) == IF n < 0 THEN <<"-">> \o ToString(-n) ELSE ToString(n)

TimerIds == 1..MaxTimers

\* setTimeout treats a negative delay as 0
EffectiveDelay(q) == IF q.num < 0 THEN Rat(0, 1) ELSE q

\* a <= b for rationals
RatLeq(a, b) == a.num * b.den <= b.num * a.den

\* Schedule that clears the reversals already pending (a debounce)
ScheduleReplacing(pending, id) == <<id>>

\* setTimeout: the callback joins the pending ones; no handle is kept
Schedule(pending, id) == Append(pending, id)

\* the timer at position i may run: no timer scheduled before it is due
\* earlier or at the same time (an earlier call with a delay not longer)
MayFire(pending, log, i) ==
    \A j \in 1..(i - 1) :
        ~RatLeq(EffectiveDelay(log[pending[j]].delay), EffectiveDelay(log[pending[i]].delay))

\* ReversalCallback without the manageAnimationState(..., 'stop') call
ReversalCallbackKeepsAnimating(cls, kind, stillPending) ==
    IF kind = "counter"
    THEN [cls EXCEPT !["counter"] = ClassRemove(@, "counter-animation")]
    ELSE [cls EXCEPT !["theme-toggle"] = ClassRemove(@, "glow")]

\* ReversalCallback that leaves the classes while a newer reversal of the
\* same element is pending
ReversalCallbackChecksPending(cls, kind, stillPending) ==
    IF stillPending
    THEN cls
    ELSE IF kind = "counter"
         THEN manageAnimationState(
                 [cls EXCEPT !["counter"] = ClassRemove(@, "counter-animation")],
                 "counter", "stop").classList
         ELSE manageAnimationState(
                 [cls EXCEPT !["theme-toggle"] = ClassRemove(@, "glow")],
                 "theme-toggle", "stop").classList

\* the arrow functions passed to setTimeout by the counter buttons and by the
\* theme toggle; stillPending: a newer reversal of the same element is pending
ReversalCallback(cls, kind, stillPending) ==
    IF kind = "counter"
    THEN manageAnimationState(
            [cls EXCEPT !["counter"] = ClassRemove(@, "counter-animation")],
            "counter", "stop").classList
    ELSE manageAnimationState(
            [cls EXCEPT !["theme-toggle"] = ClassRemove(@, "glow")],
            "theme-toggle", "stop").classList

\* the page as parsed, with every expected element in it
InitUi ==
    /\ classList = [e \in UiElements |-> {}]
    /\ lastCall = NoCallYet
    /\ warnings = 0
    /\ toggleRun = NoRun
    /\ ctorArg = [c \in {"scopedCounter"} |-> Num(0)]
    /\ counters = [c \in {"scopedCounter"} |-> createScopedCounter(Num(0))]
    /\ ctrLast = NoOpYet
    /\ present = ExpectedElements
    /\ faqCount \in 0..MaxFaq
    /\ loadState = "parsed"
    /\ thrownAt = None
    /\ listeners = NoListeners
    /\ domListeners = <<"outer">>
    /\ textContent = [e \in {"counter", "theme-toggle"} |->
                         IF e = "counter" THEN <<"0">> ELSE <<"Toggle Dark Mode">>]
    /\ timers = <<>>
    /\ timerLog = <<>>
    /\ fired = [id \in TimerIds |-> 0]

\* the bookkeeping of a manageAnimationState call made inside a handler
CallRecord(cls, element, action) ==
    LET m == manageAnimationState(cls, element, action)
    IN  [ element |-> element, action |-> action, before |-> cls[element],
          warned |-> m.warned, returned |-> TRUE, ret |-> m.ret ]

\* the click handlers of increment-btn, decrement-btn and reset-btn, which
\* differ only in the counter method they call; w: counterElement.offsetWidth
CounterClick(handler, op, m, w) ==
    LET added == [classList EXCEPT !["counter"] = ClassAdd(@, "counter-animation")]
        animationDuration ==
            calculateAnimationDuration(CounterAnimationDuration, globalAnimationSpeed, w)
        started == manageAnimationState(added, "counter", "start")
        id == Len(timerLog) + 1
    IN  /\ listeners[handler] > 0
        /\ id <= MaxTimers
        /\ counters' = m.counters
        /\ ctrLast' = [counter |-> "scopedCounter", op |-> op, step |-> Undefined,
                       before |-> counters["scopedCounter"].count, ret |-> m.ret]
        /\ textContent' = [textContent EXCEPT !["counter"] = NumberToText(m.ret)]
        /\ classList' = started.classList
        /\ lastCall' = CallRecord(added, "counter", "start")
        /\ timerLog' = Append(timerLog, [kind |-> "counter", delay |-> animationDuration])
        /\ timers' = Schedule(timers, id)
        /\ UNCHANGED <<warnings, toggleRun, ctorArg, fired>>
        /\ UNCHANGED <<serverVars, helperVars, loadVars, widgetVars>>

ClickIncrement(w) ==
    CounterClick("increment-btn:click", "increment",
                 increment(counters, "scopedCounter", Undefined), w)

ClickDecrement(w) ==
    CounterClick("decrement-btn:click", "decrement",
                 decrement(counters, "scopedCounter", Undefined), w)

ClickReset(w) ==
    CounterClick("reset-btn:click", "reset", reset(counters, "scopedCounter"), w)

\* the click handler of theme-toggle
ClickThemeToggle ==
    LET toggled == [classList EXCEPT !["body"] = ClassToggle(@, "dark-mode")]
        glowing == [toggled EXCEPT !["theme-toggle"] = ClassAdd(@, "glow")]
        started == manageAnimationState(glowing, "theme-toggle", "start")
        glowDuration ==
            calculateAnimationDuration(GlowBaseDuration, globalAnimationSpeed,
                                       GlowElementSize)
        id == Len(timerLog) + 1
    IN  /\ listeners["theme-toggle:click"] > 0
        /\ id <= MaxTimers
        /\ classList' = started.classList
        /\ lastCall' = CallRecord(glowing, "theme-toggle", "start")
        /\ timerLog' = Append(timerLog, [kind |-> "theme", delay |-> glowDuration])
        /\ timers' = Schedule(timers, id)
        /\ textContent' = [textContent EXCEPT !["theme-toggle"] =
                IF ClassContains(started.classList["body"], "dark-mode")
                THEN <<"Toggle Light Mode">> ELSE <<"Toggle Dark Mode">>]
        /\ UNCHANGED <<warnings, toggleRun, fired>>
        /\ UNCHANGED <<serverVars, counterVars, helperVars, loadVars, widgetVars>>

\* without the i-th element
RemoveAt(seq, i) == SubSeq(seq, 1, i - 1) \o SubSeq(seq, i + 1, Len(seq))

\* the event loop runs the pending callback at position i
FireTimer(i) ==
    /\ i \in 1..Len(timers)
    /\ MayFire(timers, timerLog, i)
    /\ LET id == timers[i]
           kind == timerLog[id].kind
           rest == RemoveAt(timers, i)
           stillPending == \E k \in 1..Len(rest) :
                              timerLog[rest[k]].kind = kind /\ rest[k] > id
           element == IF kind = "counter" THEN "counter" ELSE "theme-toggle"
           token == IF kind = "counter" THEN "counter-animation" ELSE "glow"
       IN  /\ timers' = rest
           /\ fired' = [fired EXCEPT ![id] = @ + 1]
           /\ classList' = ReversalCallback(classList, kind, stillPending)
           /\ lastCall' = CallRecord([classList EXCEPT ![element] = ClassRemove(@, token)],
                                     element, "stop")
    /\ UNCHANGED <<warnings, toggleRun, textContent, timerLog>>
    /\ UNCHANGED <<serverVars, counterVars, helperVars, loadVars, widgetVars>>

(***************************************************************************)
(* script.js : dropdown menu and tabbed interface                          *)
(***************************************************************************)
\* no click has been dispatched yet
NoEvent == [type |-> "none", target |-> None]

\* the a elements inside #dropdown-content
DropdownLinks == {"dropdown-link-1", "dropdown-link-2"}

\* link.textContent
LinkText(link) == IF link = "dropdown-link-1" THEN <<"Option 1">> ELSE <<"Option 2">>

\* the .tab-btn and .tab-pane elements of the page
TabBtns == {"tab-btn-1", "tab-btn-2", "tab-btn-3", "tab-btn-4"}
TabPanes == {"tab1", "tab2", "tab3"}

\* btn.getAttribute('data-tab'); the last button names no element of the page
DataTab(btn) ==
    CASE btn = "tab-btn-1" -> "tab1"
      [] btn = "tab-btn-2" -> "tab2"
      [] btn = "tab-btn-3" -> "tab3"
      [] OTHER -> "tab4"

WidgetElements == {".dropdown", "dropdown-content"} \cup TabBtns \cup TabPanes

\* e.target.closest('.dropdown'): the button, the content and its links lie
\* inside the .dropdown element
InsideDropdown(target) ==
    target \in {".dropdown", "dropdown-btn", "dropdown-content"} \cup DropdownLinks

\* the click listener on document (lines 508-516), which a click on any
\* element reaches by bubbling after the target's own listeners have run
DocumentClick(cls, target) ==
    IF listeners["document:click"] > 0 /\ ~InsideDropdown(target)
    THEN manageAnimationState([cls EXCEPT ![".dropdown"] = ClassRemove(@, "show")],
                              ".dropdown", "stop").classList
    ELSE cls

\* the manageAnimationState call the document listener makes, if it makes one
DocumentClickCall(cls, target, otherwise) ==
    IF listeners["document:click"] > 0 /\ ~InsideDropdown(target)
    THEN CallRecord([cls EXCEPT ![".dropdown"] = ClassRemove(@, "show")],
                    ".dropdown", "stop")
    ELSE otherwise

\* the click handler of dropdown-btn
ClickDropdownBtn ==
    LET toggled == [classList EXCEPT ![".dropdown"] = ClassToggle(@, "show")]
        result == manageAnimationState(toggled, "dropdown-content", "toggle")
    IN  /\ listeners["dropdown-btn:click"] > 0
        /\ classList' = DocumentClick(result.classList, "dropdown-btn")
        /\ lastCall' = DocumentClickCall(result.classList, "dropdown-btn",
                                         CallRecord(toggled, "dropdown-content", "toggle"))
        /\ lastEvent' = [type |-> "click", target |-> "dropdown-btn"]
        /\ UNCHANGED <<warnings, toggleRun, uiVars>>
        /\ UNCHANGED <<serverVars, counterVars, helperVars, loadVars>>

\* the click handler of a dropdown item
ClickDropdownLink(link) ==
    LET closed == [classList EXCEPT ![".dropdown"] = ClassRemove(@, "show")]
        result == manageAnimationState(closed, ".dropdown", "stop")
    IN  /\ listeners["dropdown-link:click"] > 0
        /\ textContent' = [textContent EXCEPT !["dropdown-btn"] = LinkText(link)]
        /\ classList' = DocumentClick(result.classList, link)
        /\ lastCall' = DocumentClickCall(result.classList, link,
                                         CallRecord(closed, ".dropdown", "stop"))
        /\ lastEvent' = [type |-> "click", target |-> link]
        /\ UNCHANGED <<warnings, toggleRun, timers, timerLog, fired>>
        /\ UNCHANGED <<serverVars, counterVars, helperVars, loadVars>>

\* a click on an element outside .dropdown that has no click handler of its
\* own: only the document listener runs
ClickOutside ==
    /\ listeners["document:click"] > 0
    /\ classList' = DocumentClick(classList, "body")
    /\ lastCall' = DocumentClickCall(classList, "body", lastCall)
    /\ lastEvent' = [type |-> "click", target |-> "body"]
    /\ UNCHANGED <<warnings, toggleRun, uiVars>>
    /\ UNCHANGED <<serverVars, counterVars, helperVars, loadVars>>

\* TabClickClasses that leaves the panes' classes as they are before showing
\* the target pane
TabClickClassesKeepsPanes(cls, btn) ==
    LET cleared == [e \in DOMAIN cls |->
                       IF e \in TabBtns THEN ClassRemove(cls[e], "active") ELSE cls[e]]
        marked == [cleared EXCEPT ![btn] = ClassAdd(@, "active")]
    IN  IF DataTab(btn) \in TabPanes
        THEN [marked EXCEPT ![DataTab(btn)] = ClassAdd(@, "active")]
        ELSE marked

\* the click handler of a .tab-btn: the class lists it leaves; when data-tab
\* names no element, getElementById returns null and the last statement
\* throws, after the statements before it have run
TabClickClasses(cls, btn) ==
    LET cleared == [e \in DOMAIN cls |->
                       IF e \in TabBtns \cup TabPanes
                       THEN ClassRemove(cls[e], "active") ELSE cls[e]]
        marked == [cleared EXCEPT ![btn] = ClassAdd(@, "active")]
    IN  IF DataTab(btn) \in TabPanes
        THEN [marked EXCEPT ![DataTab(btn)] = ClassAdd(@, "active")]
        ELSE marked

\* a click on a .tab-btn
ClickTab(btn) ==
    LET shown == TabClickClasses(classList, btn)
    IN  /\ listeners[".tab-btn:click"] > 0
        /\ classList' = DocumentClick(shown, btn)
        /\ lastCall' = DocumentClickCall(shown, btn, lastCall)
        /\ lastEvent' = [type |-> "click", target |-> btn]
        /\ UNCHANGED <<warnings, toggleRun, uiVars>>
        /\ UNCHANGED <<serverVars, counterVars, helperVars, loadVars>>

\* the page as parsed: the dropdown closed, any of the tabs marked active
InitWidgets ==
    /\ \E activeBtns \in SUBSET TabBtns, activePanes \in SUBSET TabPanes :
          classList = [e \in WidgetElements |->
                          IF e \in activeBtns \cup activePanes THEN {"active"} ELSE {}]
    /\ lastCall = NoCallYet
    /\ warnings = 0
    /\ toggleRun = NoRun
    /\ present = ExpectedElements
    /\ faqCount \in 0..MaxFaq
    /\ loadState = "parsed"
    /\ thrownAt = None
    /\ listeners = NoListeners
    /\ domListeners = <<"outer">>
    /\ textContent = [e \in {"dropdown-btn"} |-> <<"Select an option">>]
    /\ timers = <<>>
    /\ timerLog = <<>>
    /\ fired = [id \in TimerIds |-> 0]
    /\ lastEvent = NoEvent

(***************************************************************************)
(* script.js : popup modal                                                 *)
(***************************************************************************)
PopupElements == {"popup-modal"}

\* the delay of the callbacks that remove 'hide', in milliseconds
HideDelay == 300

\* the handlers as one run of the listener that wires the box animation, the
\* card flip, the spinner and the popup leaves them attached
PopupWired ==
    RunSteps(BoxAnimationSteps, 1, ExpectedElements, 0,
             [ threw |-> FALSE, at |-> None, outerThrew |-> FALSE, outerAt |-> None,
               attached |-> NoListeners, added |-> <<"outer">> ]).attached

\* the click handler of show-popup-btn
ClickShowPopup ==
    LET shown == [classList EXCEPT !["popup-modal"] = ClassAdd(@, "show")]
        animationResult == manageAnimationState(shown, "popup-modal", "start")
    IN  /\ listeners["show-popup-btn:click"] > 0
        /\ classList' = animationResult.classList
        /\ lastCall' = CallRecord(shown, "popup-modal", "start")
        /\ lastEvent' = [type |-> "click", target |-> "show-popup-btn"]
        /\ UNCHANGED <<warnings, toggleRun, uiVars>>
        /\ UNCHANGED <<serverVars, counterVars, helperVars, loadVars>>

\* the body shared by the three handlers that close the popup: the click
\* handlers of close-popup-btn and of the .close span, and the click listener
\* on window when the click's target is the modal itself
ClosePopup(handler, target) ==
    LET hidden == [classList EXCEPT !["popup-modal"] =
                      ClassAdd(ClassRemove(@, "show"), "hide")]
        animationResult == manageAnimationState(hidden, "popup-modal", "stop")
        id == Len(timerLog) + 1
    IN  /\ listeners[handler] > 0
        /\ id <= MaxTimers
        /\ classList' = animationResult.classList
        /\ lastCall' = CallRecord(hidden, "popup-modal", "stop")
        /\ timerLog' = Append(timerLog, [kind |-> "hide", delay |-> Rat(HideDelay, 1)])
        /\ timers' = Schedule(timers, id)
        /\ lastEvent' = [type |-> "click", target |-> target]
        /\ UNCHANGED <<warnings, toggleRun, textContent, fired>>
        /\ UNCHANGED <<serverVars, counterVars, helperVars, loadVars>>

ClickClosePopupBtn == ClosePopup("close-popup-btn:click", "close-popup-btn")

ClickCloseSpan == ClosePopup(".close:click", ".close")

ClickPopupBackdrop == ClosePopup("window:click", "popup-modal")

\* the arrow function passed to setTimeout by the closing handlers
HideCallback(cls) == [cls EXCEPT !["popup-modal"] = ClassRemove(@, "hide")]

\* the event loop runs the pending callback at position i
FireHideTimer(i) ==
    /\ i \in 1..Len(timers)
    /\ MayFire(timers, timerLog, i)
    /\ timers' = RemoveAt(timers, i)
    /\ fired' = [fired EXCEPT ![timers[i]] = @ + 1]
    /\ classList' = HideCallback(classList)
    /\ UNCHANGED <<lastCall, warnings, toggleRun, textContent, timerLog, lastEvent>>
    /\ UNCHANGED <<serverVars, counterVars, helperVars, loadVars>>

\* the page with the popup closed and its handlers attached
InitPopup ==
    /\ classList = [e \in PopupElements |-> {}]
    /\ lastCall = NoCallYet
    /\ warnings = 0
    /\ toggleRun = NoRun
    /\ present = ExpectedElements
    /\ faqCount = 0
    /\ loadState = "wired"
    /\ thrownAt = None
    /\ listeners = PopupWired
    /\ domListeners = <<"outer">>
    /\ textContent = [e \in {"counter", "theme-toggle"} |->
                         IF e = "counter" THEN <<"0">> ELSE <<"Toggle Dark Mode">>]
    /\ timers = <<>>
    /\ timerLog = <<>>
    /\ fired = [id \in TimerIds |-> 0]
    /\ lastEvent = NoEvent

(***************************************************************************)
(* Specifications                                                          *)
(***************************************************************************)
\* no click has been handled and no timer is pending
IdleUi ==
    /\ textContent = [e \in {"counter", "theme-toggle"} |->
                         IF e = "counter" THEN <<"0">> ELSE <<"Toggle Dark Mode">>]
    /\ timers = <<>>
    /\ timerLog = <<>>
    /\ fired = [id \in TimerIds |-> 0]

\* no click has been dispatched to a widget
IdleWidgets == lastEvent = NoEvent

\* the script is not loaded in a page
IdleLoad ==
    /\ present = ExpectedElements
    /\ faqCount = 0
    /\ loadState = "parsed"
    /\ thrownAt = None
    /\ listeners = NoListeners
    /\ domListeners = <<"outer">>

IdleHelpers == InitHelpers

IdleAnim ==
    /\ classList = [e \in Elements |-> {}]
    /\ lastCall = NoCallYet
    /\ warnings = 0
    /\ toggleRun = NoRun

IdleCounters ==
    /\ ctorArg = [c \in Counters |-> Undefined]
    /\ counters = [c \in Counters |-> createScopedCounter(Undefined)]
    /\ ctrLast = NoOpYet

InitPay ==
    /\ InitServer
    /\ env \in EnvValues
    /\ IdleAnim
    /\ IdleCounters
    /\ IdleHelpers
    /\ IdleLoad
    /\ IdleUi
    /\ IdleWidgets

NextPay ==
    \/ Tick
    \/ \E r \in Requests, body \in ReqBodies : PayHandler(r, body)
    \/ \E r \in Requests, data \in UpstreamBodies : UpstreamResolve(r, data)
    \/ \E r \in Requests, error \in AxiosErrors : UpstreamReject(r, error)
    \/ \E r \in Requests : PayResume(r)

SpecPay == InitPay /\ [][NextPay]_vars

IdleServer ==
    /\ InitServer
    /\ env = Undefined

\* the calls are made with no reversal pending, or with one pending
InitManageUi ==
    /\ textContent = [e \in {"counter", "theme-toggle"} |->
                         IF e = "counter" THEN <<"0">> ELSE <<"Toggle Dark Mode">>]
    /\ timers \in {<<>>, <<1>>}
    /\ timerLog = IF timers = <<>> THEN <<>>
                  ELSE <<[kind |-> "counter",
                          delay |-> calculateAnimationDuration(CounterAnimationDuration,
                                                               globalAnimationSpeed, 20)]>>
    /\ fired = [id \in TimerIds |-> 0]

InitManage ==
    /\ IdleServer
    /\ InitAnim
    /\ IdleCounters
    /\ IdleHelpers
    /\ IdleLoad
    /\ InitManageUi
    /\ IdleWidgets

NextManage ==
    \/ \E element \in Elements : ManageStart(element)
    \/ \E element \in Elements : ManageStop(element)
    \/ \E element \in Elements : ManageToggle(element)
    \/ \E element \in Elements, action \in OtherActions : ManageOther(element, action)

SpecManage == InitManage /\ [][NextManage]_vars

InitCounter ==
    /\ IdleServer
    /\ IdleAnim
    /\ InitCounters
    /\ IdleHelpers
    /\ IdleLoad
    /\ IdleUi
    /\ IdleWidgets

NextCounter ==
    \/ \E c \in Counters, step \in Steps : Increment(c, step)
    \/ \E c \in Counters, step \in Steps : Decrement(c, step)
    \/ \E c \in Counters : Reset(c)
    \/ \E c \in Counters : GetValue(c)

SpecCounter == InitCounter /\ [][NextCounter]_vars

InitHelper ==
    /\ IdleServer
    /\ IdleAnim
    /\ IdleCounters
    /\ InitHelpers
    /\ IdleLoad
    /\ IdleUi
    /\ IdleWidgets

NextHelper ==
    \/ WallTick
    \/ \E b \in BaseDurations, m \in SpeedMultipliers, e \in ElementSizes :
          CalcDuration(b, m, e)
    \/ \E type \in AnimationTypes, duration \in ConfigDurations, easing \in Easings :
          CreateConfig(type, duration, easing)

SpecHelper == InitHelper /\ [][NextHelper]_vars

InitPageLoad ==
    /\ IdleServer
    /\ IdleAnim
    /\ IdleCounters
    /\ IdleHelpers
    /\ InitLoad
    /\ IdleUi
    /\ IdleWidgets

NextPageLoad == DOMContentLoaded

SpecLoad == InitPageLoad /\ [][NextPageLoad]_vars

InitPageUi ==
    /\ IdleServer
    /\ IdleHelpers
    /\ InitUi
    /\ IdleWidgets

FireAny == \E i \in 1..MaxTimers : FireTimer(i)

NextUi ==
    \/ DOMContentLoaded
    \/ \E w \in OffsetWidths : ClickIncrement(w)
    \/ \E w \in OffsetWidths : ClickDecrement(w)
    \/ \E w \in OffsetWidths : ClickReset(w)
    \/ ClickThemeToggle
    \/ FireAny

SpecUi == InitPageUi /\ [][NextUi]_vars

\* the event loop eventually runs a callback whose delay has elapsed
SpecUiFair == SpecUi /\ WF_vars(FireAny)

InitWidgetPage ==
    /\ IdleServer
    /\ IdleCounters
    /\ IdleHelpers
    /\ InitWidgets

NextWidgets ==
    \/ DOMContentLoaded
    \/ ClickDropdownBtn
    \/ \E link \in DropdownLinks : ClickDropdownLink(link)
    \/ ClickOutside
    \/ \E btn \in TabBtns : ClickTab(btn)

SpecWidgets == InitWidgetPage /\ [][NextWidgets]_vars

InitPopupPage ==
    /\ IdleServer
    /\ IdleCounters
    /\ IdleHelpers
    /\ InitPopup

FireAnyHide == \E i \in 1..MaxTimers : FireHideTimer(i)

NextPopup ==
    \/ ClickShowPopup
    \/ ClickClosePopupBtn
    \/ ClickCloseSpan
    \/ ClickPopupBackdrop
    \/ FireAnyHide

SpecPopup == InitPopupPage /\ [][NextPopup]_vars

(***************************************************************************)
(* Properties of POST /pay (SpecPay)                                       *)
(***************************************************************************)
DigitValue(c) == CHOOSE d \in 0..9 : DigitChars[d + 1] = c

\* the number a string of decimal digits denotes
RECURSIVE ParseDec(_)
ParseDec(str) ==
    IF Len(str) = 0 THEN 0
    ELSE 10 * ParseDec(SubSeq(str, 1, Len(str) - 1)) + DigitValue(str[Len(str)])

\* C1: whenever the upstream call of a request resolved, the relay's answer
\* to that request is status 200 with a body equal to the upstream body.
C1_SuccessRelayedVerbatim ==
    \A r \in Requests :
        (pc[r] = "done" /\ settled[r].k = "resolved") =>
            responses[r] = <<[status |-> 200, body |-> settled[r].data]>>

C1_Witness ==
    \E r \in Requests :
        /\ pc[r] = "done"
        /\ settled[r].k = "resolved"
        /\ "link" \in DOMAIN settled[r].data

\* C2: every failure (a rejected upstream call of any class, or an exception
\* while building the request) is answered with status 500 and a body
\* {error: message of the thrown error}, and with nothing else.
C2_FailureIs500 ==
    \A r \in Requests :
        /\ (pc[r] = "done" /\ settled[r].k = "rejected") =>
              responses[r] =
                  <<[status |-> 500, body |-> [error |-> settled[r].error.message]]>>
        /\ (pc[r] = "done" /\ inbound[r] = Undefined) =>
              responses[r] =
                  <<[status |-> 500, body |-> [error |-> BodyTypeError.message]]>>

C2_Witness ==
    \E r, q \in Requests :
        /\ pc[r] = "done" /\ settled[r].k = "rejected"
        /\ settled[r].error.code = "ETIMEDOUT"
        /\ pc[q] = "done" /\ inbound[q] = Undefined

\* C3 as claimed: every handled request made exactly one outbound call and
\* got exactly one response, sent only after the outbound call settled.
C3_ExactlyOneCall ==
    \A r \in Requests :
        /\ Len(calls[r]) <= 1
        /\ Len(responses[r]) <= 1
        /\ pc[r] = "done" => (Len(calls[r]) = 1 /\ Len(responses[r]) = 1)
        /\ Len(responses[r]) > 0 => settled[r].k \in {"resolved", "rejected"}

\* C3 as amended: a request makes exactly one outbound call, never a second
\* one, unless building the request throws (req.body undefined), in which
\* case it makes none; every handled request gets exactly one response, and
\* when a call was made the response is sent only after the call settled.
C3_AtMostOneCall ==
    \A r \in Requests :
        /\ Len(calls[r]) <= 1
        /\ Len(responses[r]) <= 1
        /\ pc[r] # "idle" => Len(calls[r]) = (IF inbound[r] = Undefined THEN 0 ELSE 1)
        /\ pc[r] = "done" <=> Len(responses[r]) = 1
        /\ Len(responses[r]) > 0 =>
              \/ settled[r].k \in {"resolved", "rejected"}
              \/ inbound[r] = Undefined /\ Len(calls[r]) = 0

C3_Witness ==
    \E r, q \in Requests :
        /\ pc[r] = "done" /\ settled[r].k = "rejected" /\ Len(calls[r]) = 1
        /\ pc[q] = "awaiting" /\ settled[q].k = "resolved" /\ Len(responses[q]) = 0

\* what the claim expects the upstream call of request r to carry
ExpectedField(body, f) == IF f \in DOMAIN body THEN body[f] ELSE Undefined

\* C4: the upstream request of a request carries that request's own amount,
\* email and name unchanged, the fixed currency, redirect URL and payment
\* options, the clock reading as tx_ref, and the bearer credential.
C4_PayloadMapping ==
    \A r \in Requests :
        \A i \in 1..Len(calls[r]) :
            LET c == calls[r][i] IN
            /\ c.url = "https://api.flutterwave.com/v3/payments"
            /\ DOMAIN c.data = {"tx_ref", "amount", "currency", "redirect_url",
                                "customer", "payment_options"}
            /\ DOMAIN c.data.customer = {"email", "name"}
            /\ c.data.amount = ExpectedField(inbound[r], "amount")
            /\ c.data.customer.email = ExpectedField(inbound[r], "email")
            /\ c.data.customer.name = ExpectedField(inbound[r], "name")
            /\ c.data.currency = "KES"
            /\ c.data.redirect_url = "https://your-site.com/callback"
            /\ c.data.payment_options = "card,mpesa,ussd"
            /\ ParseDec(c.data.tx_ref) = c.at
            /\ env # Undefined =>
                  c.config.headers.Authorization = <<"Bearer ", env.s>>

C4_Witness ==
    \E r, q \in Requests :
        /\ Len(calls[r]) = 1 /\ Len(calls[q]) = 1
        /\ inbound[r] # inbound[q]
        /\ "name" \in DOMAIN inbound[r]
        /\ calls[q][1].at >= 10
        /\ env # Undefined

(***************************************************************************)
(* Properties of manageAnimationState (SpecManage)                         *)
(***************************************************************************)
\* whether the element of the most recent call carries 'animating' now
Animating(element) == "animating" \in classList[element]

\* whether it carried 'animating' when the most recent call was entered
WasAnimating == "animating" \in lastCall.before

\* C5: after manageAnimationState(element, 'start'), from either class state,
\* the element carries 'animating' and the call returned success = true and
\* newState = true.
C5_StartAddsClass ==
    lastCall.action = "start" =>
        /\ Animating(lastCall.element)
        /\ lastCall.ret.success = TRUE
        /\ lastCall.ret.newState = TRUE

C5_Witness ==
    /\ lastCall.action = "start"
    /\ WasAnimating
    /\ Animating(lastCall.element)

\* C6: after manageAnimationState(element, 'stop'), from either class state,
\* the element does not carry 'animating' and the call returned
\* success = true and newState = false.
C6_StopRemovesClass ==
    lastCall.action = "stop" =>
        /\ ~Animating(lastCall.element)
        /\ lastCall.ret.success = TRUE
        /\ lastCall.ret.newState = FALSE

C6_Witness ==
    /\ lastCall.action = "stop"
    /\ ~WasAnimating
    /\ ~Animating(lastCall.element)

\* C7: after manageAnimationState(element, 'toggle') the presence of
\* 'animating' is the negation of its presence at entry, and success equals
\* newState equals that new presence.
C7_ToggleFlips ==
    lastCall.action = "toggle" =>
        /\ Animating(lastCall.element) = ~WasAnimating
        /\ lastCall.ret.success = ~WasAnimating
        /\ lastCall.ret.newState = lastCall.ret.success

C7_Witness ==
    /\ lastCall.action = "toggle"
    /\ WasAnimating
    /\ lastCall.ret.success = FALSE

\* C8: after n 'toggle' calls in a row on one element, the element is in its
\* original 'animating' state when n is even and in the opposite state when
\* n is odd.
C8_ToggleParity ==
    toggleRun.element # NoElement =>
        IF toggleRun.n % 2 = 0
        THEN Animating(toggleRun.element) = toggleRun.origin
        ELSE Animating(toggleRun.element) = ~toggleRun.origin

C8_Witness ==
    /\ toggleRun.element # NoElement
    /\ toggleRun.n = 4
    /\ toggleRun.origin = TRUE

\* C9: a call with an action other than 'start', 'stop', 'toggle' leaves the
\* element's class list as it was, warns, returns normally, and reports
\* success = false and newState = the unchanged class presence.
C9_InvalidActionNoMutation ==
    lastCall.action \in OtherActions =>
        /\ classList[lastCall.element] = lastCall.before
        /\ lastCall.ret.success = FALSE
        /\ lastCall.ret.newState = WasAnimating
        /\ lastCall.warned
        /\ lastCall.returned

C9_Witness ==
    /\ lastCall.action = "Start"
    /\ ~WasAnimating
    /\ warnings = 2

\* C10: for every action, the returned newState is the presence of
\* 'animating' on the element right after the call, and the returned element
\* is the element passed in.
C10_NewStateIsPostState ==
    lastCall.returned =>
        /\ lastCall.ret.newState = Animating(lastCall.element)
        /\ lastCall.ret.element = lastCall.element

C10_Witness ==
    /\ lastCall.returned
    /\ lastCall.ret.newState # WasAnimating
    /\ lastCall.ret.element = "popup-modal"

(***************************************************************************)
(* Properties of createScopedCounter (SpecCounter)                         *)
(***************************************************************************)
\* the step a call used: 1 when the argument was omitted
UsedStep == IF ctrLast.step = Undefined THEN 1 ELSE ctrLast.step.n

\* the value a counter was constructed with: 0 when the argument was omitted
ConstructedWith(c) == IF ctorArg[c] = Undefined THEN 0 ELSE ctorArg[c].n

\* the current value of the counter of the most recent call
LastCount == counters[ctrLast.counter].count

\* C11: a counter is one integer v that starts at init (0 when omitted);
\* increment(step) leaves v = old v + step and returns it, decrement(step)
\* leaves v = old v - step and returns it, step is 1 when omitted, and
\* getValue() returns v and leaves it as it was.
C11_CounterIsOneInteger ==
    /\ ctrLast = NoOpYet => \A c \in Counters : counters[c].count = ConstructedWith(c)
    /\ ctrLast.op = "increment" =>
          (LastCount = ctrLast.before + UsedStep /\ ctrLast.ret = LastCount)
    /\ ctrLast.op = "decrement" =>
          (LastCount = ctrLast.before - UsedStep /\ ctrLast.ret = LastCount)
    /\ ctrLast.op = "getValue" =>
          (LastCount = ctrLast.before /\ ctrLast.ret = ctrLast.before)

C11_Witness ==
    /\ ctrLast.op = "decrement"
    /\ ctrLast.step = Num(3)
    /\ ctrLast.before = 6
    /\ ctrLast.ret = 3
    /\ ConstructedWith(ctrLast.counter) = 5

\* C12: after any sequence of calls, reset() leaves the counter at the value
\* it was constructed with and returns that value; a reset of a counter that
\* is already there changes nothing.
C12_ResetRestoresInitial ==
    ctrLast.op = "reset" =>
        /\ LastCount = ConstructedWith(ctrLast.counter)
        /\ ctrLast.ret = ConstructedWith(ctrLast.counter)
        /\ (ctrLast.before = ConstructedWith(ctrLast.counter) => LastCount = ctrLast.before)

C12_Witness ==
    /\ ctrLast.op = "reset"
    /\ ConstructedWith(ctrLast.counter) = 5
    /\ ctrLast.before = 8
    /\ LastCount = 5

\* C19: a call on one counter leaves the value and the reset target of every
\* other counter unchanged, and a counter's value changes only through its
\* own increment, decrement or reset.
C19_CountersIsolated ==
    [][ \A c \in Counters :
          /\ counters'[c].initialValue = counters[c].initialValue
          /\ counters'[c].count # counters[c].count =>
                (ctrLast'.counter = c /\ ctrLast'.op \in {"increment", "decrement", "reset"}) ]_vars

C19_Witness ==
    /\ ctrLast.counter = "c1"
    /\ ctrLast.op = "increment"
    /\ counters["c1"].count = 0
    /\ counters["c2"].count = 8
    /\ ConstructedWith("c1") = ConstructedWith("c2")

(***************************************************************************)
(* Properties of the pure helpers (SpecHelper)                             *)
(***************************************************************************)
\* C13: calculateAnimationDuration(base, mult, size) is base * mult * size / 100
\* for all inputs, zero and negative ones included: size = 0 gives 0, and a
\* negative size with positive base and mult gives a negative duration.
C13_DurationFormula ==
    durCall.called =>
        LET r == durCall.ret
            b == durCall.baseDuration
            m == durCall.speedMultiplier
            e == durCall.elementSize
        IN  /\ r.den > 0
            /\ 100 * r.num = b * m * e * r.den
            /\ e = 0 => r.num = 0
            /\ (e < 0 /\ b > 0 /\ m > 0) => r.num < 0

C13_Witness ==
    /\ durCall.called
    /\ durCall.baseDuration = 500
    /\ durCall.speedMultiplier = 1
    /\ durCall.elementSize = -50
    /\ durCall.ret = [num |-> -250, den |-> 1]

\* the milliseconds since midnight an ISO timestamp of 1970-01-01 denotes
ParseISOTime(ts) ==
    3600000 * ParseDec(SubSeq(ts, 12, 13)) + 60000 * ParseDec(SubSeq(ts, 15, 16))
        + 1000 * ParseDec(SubSeq(ts, 18, 19)) + ParseDec(SubSeq(ts, 21, 23))

WellFormedISO(ts) ==
    /\ Len(ts) = 24
    /\ SubSeq(ts, 1, 11) = <<"1", "9", "7", "0", "-", "0", "1", "-", "0", "1", "T">>
    /\ ts[14] = ":" /\ ts[17] = ":" /\ ts[20] = "." /\ ts[24] = "Z"

\* C14 as claimed: the record carries type, duration and the supplied easing,
\* its easing is "ease" exactly when the easing argument was omitted, and its
\* timestamp is the wall-clock time of the call.
C14_EaseIffOmitted ==
    cfgCall.called =>
        /\ cfgCall.ret.animationType = cfgCall.type
        /\ cfgCall.ret.duration = cfgCall.duration
        /\ cfgCall.easing # Undefined => cfgCall.ret.easing = cfgCall.easing.s
        /\ cfgCall.ret.easing = "ease" <=> cfgCall.easing = Undefined
        /\ WellFormedISO(cfgCall.ret.timestamp)
        /\ ParseISOTime(cfgCall.ret.timestamp) = cfgCall.at

\* C14 as amended: the record carries type, duration and the supplied easing
\* (which may itself be "ease"), its easing is "ease" whenever the easing
\* argument was omitted, and its timestamp is the wall-clock time of the call.
C14_EaseWhenOmitted ==
    cfgCall.called =>
        /\ cfgCall.ret.animationType = cfgCall.type
        /\ cfgCall.ret.duration = cfgCall.duration
        /\ cfgCall.easing # Undefined => cfgCall.ret.easing = cfgCall.easing.s
        /\ cfgCall.easing = Undefined => cfgCall.ret.easing = "ease"
        /\ WellFormedISO(cfgCall.ret.timestamp)
        /\ ParseISOTime(cfgCall.ret.timestamp) = cfgCall.at

C14_Witness ==
    /\ cfgCall.called
    /\ cfgCall.type = "fade"
    /\ cfgCall.duration = 500
    /\ cfgCall.easing = Undefined
    /\ cfgCall.ret.easing = "ease"
    /\ cfgCall.at = 60000

(***************************************************************************)
(* Properties of handler registration (SpecLoad)                           *)
(***************************************************************************)
\* whether an expected element is absent from the page
Absent(e) == e \notin present

\* C15 as claimed: once DOMContentLoaded has been dispatched, registration
\* has thrown if any element the script expects is absent from the page.
C15_AnyAbsentThrows ==
    loadState # "parsed" =>
        (((\E e \in ExpectedElements : Absent(e)) \/ faqCount = 0)
            => loadState = "threw")

\* C15 as amended: registration throws exactly when one of theme-toggle,
\* increment-btn, decrement-btn, reset-btn, dropdown-content, dropdown-btn
\* and user-form is absent; the absence of any other expected element
\* (counter, .faq-question, .tab-btn, animate-box-btn, popup-modal, ...) does
\* not make registration throw.
C15_DereferencedAbsentThrows ==
    loadState # "parsed" =>
        (loadState = "threw" <=>
            \E e \in { "theme-toggle", "increment-btn", "decrement-btn", "reset-btn",
                       "dropdown-content", "dropdown-btn", "user-form" } : Absent(e))

C15_Witness ==
    /\ loadState = "threw"
    /\ thrownAt = "user-form"
    /\ Absent("user-form")
    /\ Absent("counter")
    /\ listeners["theme-toggle:click"] = 1
    /\ listeners["user-form:submit"] = 0

(***************************************************************************)
(* Properties of the click handlers and their timers (SpecUi, SpecUiFair)  *)
(***************************************************************************)
\* the timers scheduled so far
Scheduled == 1..Len(timerLog)

\* the pending timers, as a set
PendingSet(pending) == {pending[k] : k \in 1..Len(pending)}

\* C16: whenever the reversal of an earlier click on a counter button runs
\* while the reversal of a newer click is still pending, it removes
\* 'animating' and 'counter-animation' from the counter element; the newest
\* trigger's own reversal has not run yet (the race).
C16_StaleReversalRemovesClass ==
    [][ \A id \in TimerIds :
          ( /\ fired'[id] = fired[id] + 1
            /\ timerLog[id].kind = "counter"
            /\ \E newer \in PendingSet(timers') :
                  newer > id /\ timerLog[newer].kind = "counter" )
          => classList'["counter"] \cap {"animating", "counter-animation"} = {} ]_vars

C16_Witness ==
    /\ Len(timerLog) >= 2
    /\ timerLog[1].kind = "counter"
    /\ timerLog[2].kind = "counter"
    /\ fired[1] = 1
    /\ fired[2] = 0
    /\ 2 \in PendingSet(timers)
    /\ classList["counter"] \cap {"animating", "counter-animation"} = {}

\* C17: each click adds exactly one pending reversal behind the ones already
\* pending, a pending reversal leaves the pending set only by running, no
\* reversal runs twice, and every scheduled reversal eventually has run once.
C17_NoReversalCancelled ==
    /\ [][ /\ Len(timerLog') # Len(timerLog) =>
                /\ Len(timerLog') = Len(timerLog) + 1
                /\ timers' = Append(timers, Len(timerLog'))
           /\ \A id \in TimerIds :
                /\ fired'[id] \in {fired[id], fired[id] + 1}
                /\ fired'[id] <= 1
                /\ (id \in PendingSet(timers) /\ id \notin PendingSet(timers'))
                      <=> fired'[id] = fired[id] + 1 ]_vars
    /\ \A id \in TimerIds : (id \in Scheduled) ~> (fired[id] = 1)

C17_Witness ==
    /\ Len(timerLog) = 3
    /\ timerLog[1].kind = "counter"
    /\ timerLog[2].kind = "counter"
    /\ timerLog[3].kind = "theme"
    /\ timers = <<1, 2, 3>>

(***************************************************************************)
(* Frame of manageAnimationState (SpecManage)                              *)
(***************************************************************************)
\* C18: a manageAnimationState call changes at most the 'animating' token of
\* the element passed in: the other tokens of that element, the class lists
\* of the other elements, the counters and the pending timers stay as they
\* were, for every action.
C18_ManageFrame ==
    [][ lastCall'.returned =>
          /\ \A e \in DOMAIN classList :
                classList'[e] \ {"animating"} = classList[e] \ {"animating"}
          /\ \A e \in DOMAIN classList :
                e # lastCall'.element => classList'[e] = classList[e]
          /\ DOMAIN classList' = DOMAIN classList
          /\ counters' = counters
          /\ timers' = timers
          /\ timerLog' = timerLog ]_vars

C18_Witness ==
    /\ lastCall.returned
    /\ lastCall.action = "stop"
    /\ lastCall.before = {"animating", "show"}
    /\ classList[lastCall.element] = {"show"}
    /\ \E e \in Elements : e # lastCall.element /\ classList[e] = {"animating", "show"}
    /\ timers = <<1>>

(***************************************************************************)
(* Independence of concurrent requests (SpecPay)                           *)
(***************************************************************************)
\* the response the outcome of request r's own call (or own throw) calls for
OwnOutcomeResponse(r) ==
    IF inbound[r] = Undefined
    THEN [status |-> 500, body |-> [error |-> BodyTypeError.message]]
    ELSE IF settled[r].k = "resolved"
         THEN [status |-> 200, body |-> settled[r].data]
         ELSE [status |-> 500, body |-> [error |-> settled[r].error.message]]

\* what the relay holds about request r
RequestState(r) == <<pc[r], inbound[r], calls[r], settled[r], responses[r]>>

\* C20: under every interleaving, the response of a request is the one its
\* own upstream outcome calls for, whatever the other requests' outcomes
\* are, and a step that accepts, settles or answers one request changes
\* nothing of any other request.
C20_RequestsIndependent ==
    /\ [](\A r \in Requests : pc[r] = "done" => responses[r] = <<OwnOutcomeResponse(r)>>)
    /\ [][ \A r, q \in Requests :
             (r # q /\ RequestState(r)' # RequestState(r))
                => RequestState(q)' = RequestState(q) ]_vars

C20_Witness ==
    \E r, q \in Requests :
        /\ pc[r] = "awaiting" /\ settled[r] = Pending
        /\ pc[q] = "done" /\ settled[q].k = "rejected"
        /\ calls[q][1].at > calls[r][1].at
        /\ responses[q][1].status = 500

(***************************************************************************)
(* Uniqueness of tx_ref (SpecPay)                                          *)
(***************************************************************************)
\* C21: tx_ref is only as unique as the clock: two requests whose handlers
\* read the clock in different milliseconds are forwarded with different
\* tx_ref values, two requests handled in the same millisecond are forwarded
\* with the same tx_ref, and the second of them is forwarded all the same
\* (no duplicate is detected or rejected).
C21_TxRefAsUniqueAsClock ==
    /\ \A r, q \in Requests :
          (r # q /\ calls[r] # <<>> /\ calls[q] # <<>>) =>
              (calls[r][1].data.tx_ref = calls[q][1].data.tx_ref
                  <=> calls[r][1].at = calls[q][1].at)
    /\ \A r \in Requests :
          (pc[r] # "idle" /\ inbound[r] # Undefined) =>
              /\ Len(calls[r]) = 1
              /\ ParseDec(calls[r][1].data.tx_ref) = calls[r][1].at

C21_Witness ==
    \E r, q \in Requests :
        /\ r # q
        /\ Len(calls[r]) = 1 /\ Len(calls[q]) = 1
        /\ calls[r][1].at = calls[q][1].at
        /\ calls[r][1].data.tx_ref = calls[q][1].data.tx_ref
        /\ now > calls[r][1].at
        /\ pc[r] = "done" /\ pc[q] = "done"
        /\ responses[r][1].status = 200 /\ responses[q][1].status = 200

(***************************************************************************)
(* Delays handed to setTimeout (SpecUi)                                    *)
(***************************************************************************)
\* C22: every delay computed with calculateAnimationDuration and passed to
\* setTimeout is strictly positive, also for the counter buttons, whose
\* element size is counterElement.offsetWidth (0 when the counter is not
\* rendered).
C22_DelaysPositive ==
    \A id \in 1..Len(timerLog) :
        timerLog[id].delay.num > 0 /\ timerLog[id].delay.den > 0

(***************************************************************************)
(* Handlers wired by the nested DOMContentLoaded listeners (SpecLoad)      *)
(***************************************************************************)
\* the handlers the nested DOMContentLoaded listeners attach
NestedHandlers ==
    { "animate-box-btn:click", "flip-card-btn:click", "start-loading-btn:click",
      "stop-loading-btn:click", "show-popup-btn:click", "close-popup-btn:click",
      ".close:click", "window:click", "header:click", "section:mouseenter",
      "section:mouseleave", "header:dblclick" }

\* C23: on a page with all expected elements, once the page's single
\* DOMContentLoaded dispatch has run, each handler registered inside the
\* nested DOMContentLoaded listeners (box animation, card flip, spinner,
\* popup, header and section effects) is attached exactly once, however many
\* .faq-question elements the page has, so that one click on animate-box-btn
\* runs its handler once.
C23_NestedHandlersAttachedOnce ==
    (loadState = "wired" /\ present = ExpectedElements) =>
        \A h \in NestedHandlers : listeners[h] = 1

(***************************************************************************)
(* Quiescence of the counter animation (SpecUiFair)                        *)
(***************************************************************************)
\* the pending reversals of clicks on the counter buttons
PendingCounterReversals ==
    {id \in PendingSet(timers) : timerLog[id].kind = "counter"}

\* the counter element carries neither animation class
CounterAtRest == classList["counter"] \cap {"counter-animation", "animating"} = {}

\* C24: after any finite sequence of clicks on the counter buttons, once no
\* further click occurs every pending reversal eventually runs, and whenever
\* none is pending the counter element carries neither 'counter-animation'
\* nor 'animating'; it ends up, and stays, that way.
C24_CounterQuiescence ==
    /\ [](PendingCounterReversals = {} => CounterAtRest)
    /\ <>[](PendingCounterReversals = {} /\ CounterAtRest)

C24_Witness ==
    /\ Len(timerLog) >= 2
    /\ \A id \in 1..Len(timerLog) : timerLog[id].kind = "counter" /\ fired[id] = 1
    /\ timers = <<>>
    /\ ctrLast.op = "decrement"
    /\ CounterAtRest

(***************************************************************************)
(* The displayed counter value (SpecUi)                                    *)
(***************************************************************************)
\* the integer a decimal text denotes
ParseText(text) ==
    IF Len(text) > 0 /\ text[1] = "-" THEN -ParseDec(Tail(text)) ELSE ParseDec(text)

\* the step is a click on one of the counter buttons
IsCounterClick ==
    /\ Len(timerLog') = Len(timerLog) + 1
    /\ timerLog'[Len(timerLog')].kind = "counter"

\* C25: after any sequence of clicks on the counter buttons the text of the
\* counter element denotes the scoped counter's value; a reset click makes
\* that value 0, an increment click adds one to it and a decrement click
\* takes one from it; a timer callback changes neither the text nor the
\* counter.
C25_TextIsCounterValue ==
    /\ [](ctrLast # NoOpYet =>
            ParseText(textContent["counter"]) = counters["scopedCounter"].count)
    /\ [][ IsCounterClick =>
             counters'["scopedCounter"].count =
                CASE ctrLast'.op = "reset" -> 0
                  [] ctrLast'.op = "increment" -> counters["scopedCounter"].count + 1
                  [] ctrLast'.op = "decrement" -> counters["scopedCounter"].count - 1 ]_vars
    /\ [][ fired' # fired => (textContent' = textContent /\ counters' = counters) ]_vars

C25_Witness ==
    /\ ctrLast.op = "reset"
    /\ ctrLast.before = -2
    /\ textContent["counter"] = <<"0">>
    /\ counters["scopedCounter"].count = 0
    /\ fired[1] = 1

(***************************************************************************)
(* Dropdown menu (SpecWidgets)                                             *)
(***************************************************************************)
\* C26: starting from a closed dropdown with no 'animating' class, after any
\* sequence of clicks on the dropdown button, on dropdown items and outside
\* the dropdown, #dropdown-content carries 'animating' exactly when
\* .dropdown carries 'show'.
C26_DropdownInSync ==
    ("animating" \in classList["dropdown-content"]) <=> ("show" \in classList[".dropdown"])

(***************************************************************************)
(* Tabbed interface (SpecWidgets)                                          *)
(***************************************************************************)
ActiveTabBtns == {b \in TabBtns : "active" \in classList[b]}

ActiveTabPanes == {p \in TabPanes : "active" \in classList[p]}

\* C28: after every click on a .tab-btn whose data-tab names an existing
\* .tab-pane, exactly one .tab-btn carries 'active', the clicked one, and
\* exactly one .tab-pane carries 'active', the one named by the clicked
\* button's data-tab, whichever tabs were active before; clicks elsewhere
\* leave the tabs as they are.
C28_ExactlyOneActiveTab ==
    /\ []( (lastEvent.target \in TabBtns /\ DataTab(lastEvent.target) \in TabPanes) =>
              /\ ActiveTabBtns = {lastEvent.target}
              /\ ActiveTabPanes = {DataTab(lastEvent.target)} )
    /\ [][ lastEvent'.target \notin TabBtns =>
              (ActiveTabBtns' = ActiveTabBtns /\ ActiveTabPanes' = ActiveTabPanes) ]_vars

C28_Witness ==
    /\ lastEvent = [type |-> "click", target |-> "tab-btn-2"]
    /\ ActiveTabBtns = {"tab-btn-2"}
    /\ ActiveTabPanes = {"tab2"}
    /\ textContent["dropdown-btn"] = <<"Option 2">>

(***************************************************************************)
(* Popup modal (SpecPopup)                                                 *)
(***************************************************************************)
\* C27: with the popup handlers attached, under any sequence of show clicks,
\* close clicks and firings of the 300 ms timers the popup modal never
\* carries both 'show' and 'hide', and a timer never removes 'hide' while
\* the timer of a more recent close is still pending.
C27_PopupShowHideExclusive ==
    /\ [](~({"show", "hide"} \subseteq classList["popup-modal"]))
    /\ [][ \A id \in TimerIds :
              ( /\ fired'[id] = fired[id] + 1
                /\ \E newer \in PendingSet(timers') : newer > id
                /\ "hide" \in classList["popup-modal"] )
              => "hide" \in classList'["popup-modal"] ]_vars

====
